---------------------------- MODULE Spec2Model ----------------------------
(***************************************************************************)
(* A model of the document-diff core of app.py: extract_text_from_item,    *)
(* compare_text_content, compare_tables, diff_content and the /compare     *)
(* handler that drives diff_content.                                       *)
(*                                                                         *)
(* Python strings are sequences of one-character strings, Python lists are *)
(* sequences, Python dicts are records whose DOMAIN is the set of keys.    *)
(* Python indices are 0-based and sequences 1-based: element k of a list   *)
(* is at position k + 1 of its sequence.                                   *)
(***************************************************************************)
EXTENDS Integers, Sequences, FiniteSets, TLC

VARIABLES
    pc,               \* position of the run
    content1,         \* request.json['content1']
    content2,         \* request.json['content2']
    idx,              \* position of the outer loop of the running pass
    structured_diffs, \* diff_content's result list
    emitted_by,       \* per record of structured_diffs: the pass and the item whose iteration appended it
    compared,         \* the (i, j) pairs that entered the same-type branch of the forward pass
    status,           \* HTTP status of the response, 0 before it is sent
    table1,           \* compare_tables argument
    table2,           \* compare_tables argument
    diffs,            \* compare_tables result
    text1,            \* compare_text_content argument
    text2,            \* compare_text_content argument
    result            \* compare_text_content result

vars == <<pc, content1, content2, idx, structured_diffs, emitted_by, compared,
          status, table1, table2, diffs, text1, text2, result>>

diffVars == <<content1, content2, idx, structured_diffs, emitted_by, compared, status>>
tableVars == <<table1, table2, diffs>>
textVars == <<text1, text2, result>>

----------------------------------------------------------------------------
(* Bounds *)

\* longest content1 / content2 list
MaxItems == 2
\* most rows of a table handed to compare_tables
MaxRows == 2
\* longest string handed to compare_text_content
MaxLen == 3

----------------------------------------------------------------------------
(* Generic helpers *)

\* all sequences over S of length lo..hi
SeqsBetween(S, lo, hi) == UNION {[1..n -> S] : n \in lo..hi}

Min(a, b) == IF a <= b THEN a ELSE b

\* Python: key in d
Has(d, k) == k \in DOMAIN d

\* Python's None
None == [none |-> TRUE]

\* Python: s[lo:hi] for 0 <= lo <= hi <= len(s)
Slice(s, lo, hi) == SubSeq(s, lo + 1, hi)

\* concatenation of a sequence of sequences
RECURSIVE Flatten(_)
Flatten(ss) == IF ss = <<>> THEN <<>> ELSE Head(ss) \o Flatten(Tail(ss))

----------------------------------------------------------------------------
(* str.strip() *)

Whitespace == {" ", "\n", "\t", "\r"}

RECURSIVE LStrip(_)
LStrip(s) == IF s # <<>> /\ Head(s) \in Whitespace THEN LStrip(Tail(s)) ELSE s

RECURSIVE RStrip(_)
RStrip(s) ==
    IF s # <<>> /\ s[Len(s)] \in Whitespace THEN RStrip(SubSeq(s, 1, Len(s) - 1)) ELSE s

\* str.lstrip() in the place of str.strip()
StripLeadingOnly(s) == LStrip(s)

Strip(s) == RStrip(LStrip(s))

----------------------------------------------------------------------------
(* extract_text_from_item *)

\* the loop of lines 22-25 and of lines 97-99: the contents of the textRun
\* elements, concatenated in order
RECURSIVE RunsText(_)
RunsText(elements) ==
    IF elements = <<>> THEN <<>>
    ELSE (IF Has(Head(elements), "textRun") THEN Head(elements).textRun.content ELSE <<>>)
         \o RunsText(Tail(elements))

\* item["paragraph"].get("paragraphStyle", {}).get("namedStyleType", "NORMAL_TEXT")
StyleOf(paragraph) ==
    IF Has(paragraph, "paragraphStyle") /\ Has(paragraph.paragraphStyle, "namedStyleType")
    THEN paragraph.paragraphStyle.namedStyleType
    ELSE "NORMAL_TEXT"

extract_text_from_item(item) ==
    IF Has(item, "paragraph")
    THEN IF Has(item.paragraph, "elements") /\ Strip(RunsText(item.paragraph.elements)) # <<>>
         THEN [type |-> "paragraph",
               text |-> Strip(RunsText(item.paragraph.elements)),
               style |-> StyleOf(item.paragraph),
               original |-> item]
         ELSE None
    ELSE IF Has(item, "table")
    THEN [type |-> "table", data |-> item.table, original |-> item]
    ELSE None

----------------------------------------------------------------------------
(* compare_text_content: difflib.SequenceMatcher(None, text1, text2) with no *)
(* junk; both strings are shorter than the 200 elements at which the        *)
(* matcher starts to discard popular elements.  Positions are 0-based.      *)

\* a[i : i + k] == b[j : j + k]
BlockMatches(a, b, i, j, k) == \A d \in 1..k : a[i + d] = b[j + d]

\* SequenceMatcher.find_longest_match(alo, ahi, blo, bhi): the longest block
\* a[i : i + k] == b[j : j + k] inside the two windows; among the longest the
\* one that starts earliest in a, and among those the one earliest in b;
\* <<alo, blo, 0>> when no element matches
find_longest_match(a, b, alo, ahi, blo, bhi) ==
    LET blocks == {m \in (alo..(ahi - 1)) \X (blo..(bhi - 1)) \X (1..Min(ahi - alo, bhi - blo)) :
                      /\ m[1] + m[3] <= ahi
                      /\ m[2] + m[3] <= bhi
                      /\ BlockMatches(a, b, m[1], m[2], m[3])}
        Better(m, n) == \/ m[3] > n[3]
                        \/ m[3] = n[3] /\ m[1] < n[1]
                        \/ m[3] = n[3] /\ m[1] = n[1] /\ m[2] <= n[2]
    IN IF blocks = {} THEN <<alo, blo, 0>>
       ELSE CHOOSE m \in blocks : \A n \in blocks : Better(m, n)

\* SequenceMatcher.get_matching_blocks, the search: the longest match of the
\* window, then the matches to its left and to its right, in increasing order
RECURSIVE MatchingBlocksIn(_, _, _, _, _, _)
MatchingBlocksIn(a, b, alo, ahi, blo, bhi) ==
    LET m == find_longest_match(a, b, alo, ahi, blo, bhi)
        i == m[1]
        j == m[2]
        k == m[3]
    IN IF k = 0 THEN <<>>
       ELSE (IF alo < i /\ blo < j THEN MatchingBlocksIn(a, b, alo, i, blo, j) ELSE <<>>)
            \o <<m>>
            \o (IF i + k < ahi /\ j + k < bhi
                THEN MatchingBlocksIn(a, b, i + k, ahi, j + k, bhi) ELSE <<>>)

\* SequenceMatcher.get_matching_blocks, the collapse of adjacent blocks:
\* cur is the block being grown, blocks the ones still to come
RECURSIVE CollapseAdjacent(_, _)
CollapseAdjacent(cur, blocks) ==
    IF blocks = <<>> THEN (IF cur[3] > 0 THEN <<cur>> ELSE <<>>)
    ELSE LET nxt == Head(blocks)
         IN IF cur[1] + cur[3] = nxt[1] /\ cur[2] + cur[3] = nxt[2]
            THEN CollapseAdjacent(<<cur[1], cur[2], cur[3] + nxt[3]>>, Tail(blocks))
            ELSE (IF cur[3] > 0 THEN <<cur>> ELSE <<>>) \o CollapseAdjacent(nxt, Tail(blocks))

\* SequenceMatcher.get_matching_blocks: the collapsed blocks and the sentinel
get_matching_blocks(a, b) ==
    CollapseAdjacent(<<0, 0, 0>>, MatchingBlocksIn(a, b, 0, Len(a), 0, Len(b)))
    \o <<<<Len(a), Len(b), 0>>>>

\* SequenceMatcher.get_opcodes: i and j are where the previous block ended
RECURSIVE OpcodesFrom(_, _, _)
OpcodesFrom(i, j, blocks) ==
    IF blocks = <<>> THEN <<>>
    ELSE LET ai == Head(blocks)[1]
             bj == Head(blocks)[2]
             size == Head(blocks)[3]
             tag == IF i < ai /\ j < bj THEN "replace"
                    ELSE IF i < ai THEN "delete"
                    ELSE IF j < bj THEN "insert"
                    ELSE ""
         IN (IF tag # "" THEN <<<<tag, i, ai, j, bj>>>> ELSE <<>>)
            \o (IF size > 0 THEN <<<<"equal", ai, ai + size, bj, bj + size>>>> ELSE <<>>)
            \o OpcodesFrom(ai + size, bj + size, Tail(blocks))

get_opcodes(a, b) == OpcodesFrom(0, 0, get_matching_blocks(a, b))

\* lines 49-54 and 63-68
RemovedSpan(t1, i1, i2) ==
    [type |-> "removed", text |-> Slice(t1, i1, i2), fullText |-> t1, range |-> <<i1, i2>>]

\* the added span with an inclusive upper end
AddedSpanInclusive(t2, j1, j2) ==
    [type |-> "added", text |-> Slice(t2, j1, j2), fullText |-> t2, range |-> <<j1, j2 + 1>>]

\* lines 56-61 and 69-74
AddedSpan(t2, j1, j2) ==
    [type |-> "added", text |-> Slice(t2, j1, j2), fullText |-> t2, range |-> <<j1, j2>>]

\* lines 48-74: the records of one opcode
OpcodeRecords(t1, t2, opcode) ==
    LET op == opcode[1]
        i1 == opcode[2]
        i2 == opcode[3]
        j1 == opcode[4]
        j2 == opcode[5]
    IN IF op = "delete" THEN <<RemovedSpan(t1, i1, i2)>>
       ELSE IF op = "insert" THEN <<AddedSpan(t2, j1, j2)>>
       ELSE IF op = "replace" THEN <<RemovedSpan(t1, i1, i2), AddedSpan(t2, j1, j2)>>
       ELSE <<>>

compare_text_content(t1, t2) ==
    LET opcodes == get_opcodes(t1, t2)
    IN Flatten([n \in 1..Len(opcodes) |-> OpcodeRecords(t1, t2, opcodes[n])])

----------------------------------------------------------------------------
(* compare_tables *)

\* lines 91-99 and 101-106: the text of one cell
RECURSIVE CellParagraphsText(_)
CellParagraphsText(contents) ==
    IF contents = <<>> THEN <<>>
    ELSE (IF Has(Head(contents), "paragraph") /\ Has(Head(contents).paragraph, "elements")
             /\ Head(contents).paragraph.elements # <<>>
          THEN RunsText(Head(contents).paragraph.elements)
          ELSE <<>>)
         \o CellParagraphsText(Tail(contents))

CellText(cell) ==
    IF Has(cell, "content") /\ cell.content # <<>> THEN CellParagraphsText(cell.content) ELSE <<>>

\* the records of one cell position without the tests of lines 109 and 118
CellDiffsWithEmptyTexts(cell1, cell2, row_idx, cell_idx) ==
    IF CellText(cell1) # CellText(cell2)
    THEN <<[type |-> "removed",
            content |-> [type |-> "table", text |-> CellText(cell1),
                         location |-> [row |-> row_idx, cell |-> cell_idx]]],
           [type |-> "added",
            content |-> [type |-> "table", text |-> CellText(cell2),
                         location |-> [row |-> row_idx, cell |-> cell_idx]]]>>
    ELSE <<>>

\* lines 108-126: the records of one cell position
CellDiffs(cell1, cell2, row_idx, cell_idx) ==
    IF CellText(cell1) # CellText(cell2)
    THEN (IF CellText(cell1) # <<>>
          THEN <<[type |-> "removed",
                  content |-> [type |-> "table", text |-> CellText(cell1),
                               location |-> [row |-> row_idx, cell |-> cell_idx]]]>>
          ELSE <<>>)
         \o
         (IF CellText(cell2) # <<>>
          THEN <<[type |-> "added",
                  content |-> [type |-> "table", text |-> CellText(cell2),
                               location |-> [row |-> row_idx, cell |-> cell_idx]]]>>
          ELSE <<>>)
    ELSE <<>>

\* the records of one row without the test of line 86: zip pairs the cells up
\* to the shorter row
RowDiffsZipOnly(row1, row2, row_idx) ==
    Flatten([c \in 1..Min(Len(row1.tableCells), Len(row2.tableCells)) |->
                CellDiffs(row1.tableCells[c], row2.tableCells[c], row_idx, c - 1)])

\* lines 86-126: the records of one row
RowDiffs(row1, row2, row_idx) ==
    IF Len(row1.tableCells) # Len(row2.tableCells)
    THEN <<[type |-> "structure",
            message |-> "Different number of cells in row " \o ToString(row_idx)]>>
    ELSE Flatten([c \in 1..Len(row1.tableCells) |->
                    CellDiffs(row1.tableCells[c], row2.tableCells[c], row_idx, c - 1)])

compare_tables(t1, t2) ==
    IF Len(t1.tableRows) # Len(t2.tableRows)
    THEN <<[type |-> "structure", message |-> "Different number of rows"]>>
    ELSE Flatten([r \in 1..Len(t1.tableRows) |->
                    RowDiffs(t1.tableRows[r], t2.tableRows[r], r - 1)])

----------------------------------------------------------------------------
(* diff_content *)

\* the records go to the front of the list
ExtendAtFront(list, records) == records \o list

\* list.append / list.extend: the records go to the end of the list
Extend(list, records) == list \o records

\* line 146
SameType(processed1, processed2) == processed1.type = processed2.type

\* lines 141-146: the 1-based position of the first element of content whose
\* normalized form exists and has the type of processed1; 0 when there is none
FirstSameType(processed1, content) ==
    LET hits == {j \in 1..Len(content) :
                    /\ extract_text_from_item(content[j]) # None
                    /\ SameType(processed1, extract_text_from_item(content[j]))}
    IN IF hits = {} THEN 0 ELSE CHOOSE j \in hits : \A k \in hits : j <= k

\* lines 148-156
ParagraphRecords(processed1, processed2) ==
    IF processed1.text # processed2.text
    THEN <<[type |-> "removed", content |-> processed1],
           [type |-> "added", content |-> processed2]>>
    ELSE <<>>

\* lines 160-169
TableRecords(processed1, processed2) ==
    LET table_diffs == compare_tables(processed1.data, processed2.data)
    IN [k \in 1..Len(table_diffs) |->
          [type |-> table_diffs[k].type,
           content |-> [type |-> "table",
                        data |-> table_diffs[k],
                        original |-> IF table_diffs[k].type = "removed"
                                     THEN processed1.original
                                     ELSE processed2.original]]]

\* the unmatched element reported as added
UnmatchedAsAdded(processed1) == <<[type |-> "added", content |-> processed1]>>

\* lines 173-177
Unmatched(processed1) == <<[type |-> "removed", content |-> processed1]>>

\* lines 135-177: the records of one iteration of the forward loop
ForwardRecords(item1, c2) ==
    LET processed1 == extract_text_from_item(item1)
        j == FirstSameType(processed1, c2)
        processed2 == extract_text_from_item(c2[j])
    IN IF processed1 = None THEN <<>>
       ELSE IF j = 0 THEN Unmatched(processed1)
       ELSE IF processed1.type = "paragraph" THEN ParagraphRecords(processed1, processed2)
       ELSE TableRecords(processed1, processed2)

\* lines 146-171: the pair the iteration compared, if any (0-based, as enumerate)
ForwardCompared(i, item1, c2) ==
    LET processed1 == extract_text_from_item(item1)
    IN IF processed1 = None \/ FirstSameType(processed1, c2) = 0 THEN {}
       ELSE {<<i, FirstSameType(processed1, c2) - 1>>}

\* the rule of the forward pass in the place of the rule of the backward pass:
\* any element of the same type counts
CounterpartByTypeOnly(processed1, processed2) ==
    /\ processed1 # None
    /\ processed1.type = processed2.type

\* lines 187-195: processed1 counts as the counterpart of processed2
Counterpart(processed1, processed2) ==
    /\ processed1 # None
    /\ processed1.type = processed2.type
    /\ IF processed1.type = "paragraph"
       THEN processed1.text = processed2.text
       ELSE Len(processed1.data.tableRows) = Len(processed2.data.tableRows)

\* lines 184-195
FoundInContent1(processed2, c1) ==
    \E k \in 1..Len(c1) : Counterpart(extract_text_from_item(c1[k]), processed2)

\* lines 180-201: the records of one iteration of the backward loop
BackwardRecords(item2, c1) ==
    LET processed2 == extract_text_from_item(item2)
    IN IF processed2 = None THEN <<>>
       ELSE IF FoundInContent1(processed2, c1) THEN <<>>
       ELSE <<[type |-> "added", content |-> processed2]>>

----------------------------------------------------------------------------
(* The documents of the model *)

Run(s) == [textRun |-> [content |-> s]]
InlineObject == [inlineObjectElement |-> [inlineObjectId |-> "img"]]
Para(elements) == [paragraph |-> [elements |-> elements]]
Cell(s) == [content |-> <<Para(<<Run(s)>>)>>]
Row(cells) == [tableCells |-> cells]
Table(rows) == [table |-> [tableRows |-> rows]]

\* text " a\n" in two runs around an inline object, default style
ParaA == Para(<<Run(<<" ", "a">>), InlineObject, Run(<<"\n">>)>>)
\* text "b\n", a heading
ParaB == [paragraph |-> [elements |-> <<Run(<<"b", "\n">>)>>,
                         paragraphStyle |-> [namedStyleType |-> "HEADING_1"]]]
\* whitespace only
ParaBlank == Para(<<Run(<<" ">>), Run(<<"\n">>)>>)
\* neither a paragraph nor a table
SectionBreak == [sectionBreak |-> [sectionStyle |-> "CONTINUOUS"]]
TabX == Table(<<Row(<<Cell(<<"x">>)>>)>>)
TabY == Table(<<Row(<<Cell(<<"y">>)>>)>>)
TabXY == Table(<<Row(<<Cell(<<"x">>)>>), Row(<<Cell(<<"y">>)>>)>>)

Items == {ParaA, ParaB, ParaBlank, SectionBreak, TabX, TabY, TabXY}

Contents == SeqsBetween(Items, 0, MaxItems)

----------------------------------------------------------------------------
(* The /compare handler, compare_syllabi, running diff_content *)

InitDiff ==
    /\ pc = "request"
    /\ content1 \in Contents
    /\ content2 \in Contents
    /\ idx = 0
    /\ structured_diffs = <<>>
    /\ emitted_by = <<>>
    /\ compared = {}
    /\ status = 0
    /\ table1 = [tableRows |-> <<>>]
    /\ table2 = [tableRows |-> <<>>]
    /\ diffs = <<>>
    /\ text1 = <<>>
    /\ text2 = <<>>
    /\ result = <<>>

\* lines 218-219
Reject ==
    /\ pc = "request"
    /\ content1 = <<>> \/ content2 = <<>>
    /\ pc' = "responded"
    /\ status' = 400
    /\ UNCHANGED <<content1, content2, idx, structured_diffs, emitted_by, compared>>
    /\ UNCHANGED <<tableVars, textVars>>

\* line 221, lines 130-132
Accept ==
    /\ pc = "request"
    /\ content1 # <<>> /\ content2 # <<>>
    /\ pc' = "forward"
    /\ idx' = 1
    /\ structured_diffs' = <<>>
    /\ UNCHANGED <<content1, content2, emitted_by, compared, status>>
    /\ UNCHANGED <<tableVars, textVars>>

\* one iteration of the loop of line 134
ForwardItem ==
    /\ pc = "forward"
    /\ idx <= Len(content1)
    /\ LET records == ForwardRecords(content1[idx], content2)
       IN /\ structured_diffs' = Extend(structured_diffs, records)
          /\ emitted_by' = Extend(emitted_by,
                                  [k \in 1..Len(records) |-> [pass |-> "forward", item |-> idx - 1]])
    /\ compared' = compared \cup ForwardCompared(idx - 1, content1[idx], content2)
    /\ idx' = idx + 1
    /\ UNCHANGED <<pc, content1, content2, status>>
    /\ UNCHANGED <<tableVars, textVars>>

\* the loop of line 134 is exhausted; line 179 starts
ForwardDone ==
    /\ pc = "forward"
    /\ idx > Len(content1)
    /\ pc' = "backward"
    /\ idx' = 1
    /\ UNCHANGED <<content1, content2, structured_diffs, emitted_by, compared, status>>
    /\ UNCHANGED <<tableVars, textVars>>

\* one iteration of the loop of line 179
BackwardItem ==
    /\ pc = "backward"
    /\ idx <= Len(content2)
    /\ LET records == BackwardRecords(content2[idx], content1)
       IN /\ structured_diffs' = Extend(structured_diffs, records)
          /\ emitted_by' = Extend(emitted_by,
                                  [k \in 1..Len(records) |-> [pass |-> "backward", item |-> idx - 1]])
    /\ idx' = idx + 1
    /\ UNCHANGED <<pc, content1, content2, compared, status>>
    /\ UNCHANGED <<tableVars, textVars>>

\* line 203 and line 224
Respond ==
    /\ pc = "backward"
    /\ idx > Len(content2)
    /\ pc' = "responded"
    /\ status' = 200
    /\ UNCHANGED <<content1, content2, idx, structured_diffs, emitted_by, compared>>
    /\ UNCHANGED <<tableVars, textVars>>

NextDiff == Reject \/ Accept \/ ForwardItem \/ ForwardDone \/ BackwardItem \/ Respond

Spec == InitDiff /\ [][NextDiff]_vars

----------------------------------------------------------------------------
(* compare_tables on its own *)

\* a cell without content
CellEmpty == [tableCellStyle |-> [rowSpan |-> 1]]
\* a cell whose only paragraph has no elements
CellNoElements == [content |-> <<[paragraph |-> [paragraphStyle |-> [namedStyleType |-> "NORMAL_TEXT"]]]>>]
\* text "xy" over two paragraphs
CellXY == [content |-> <<Para(<<Run(<<"x">>)>>), Para(<<InlineObject, Run(<<"y">>)>>)>>]

TableRowsOfModel ==
    {Row(<<Cell(<<"x">>)>>),
     Row(<<CellEmpty>>),
     Row(<<Cell(<<"x">>), Cell(<<"y">>)>>),
     Row(<<Cell(<<"y">>), CellXY>>),
     Row(<<CellNoElements, Cell(<<"y">>)>>),
     Row(<<Cell(<<"x", "y">>), CellEmpty>>)}

TablesOfModel == {[tableRows |-> rows] : rows \in SeqsBetween(TableRowsOfModel, 0, MaxRows)}

InitTables ==
    /\ pc = "tables"
    /\ table1 \in TablesOfModel
    /\ table2 \in TablesOfModel
    /\ diffs = <<>>
    /\ content1 = <<>>
    /\ content2 = <<>>
    /\ idx = 0
    /\ structured_diffs = <<>>
    /\ emitted_by = <<>>
    /\ compared = {}
    /\ status = 0
    /\ text1 = <<>>
    /\ text2 = <<>>
    /\ result = <<>>

\* a call of compare_tables, lines 78-128
CompareTables ==
    /\ pc = "tables"
    /\ diffs' = compare_tables(table1, table2)
    /\ pc' = "tables_done"
    /\ UNCHANGED <<table1, table2>>
    /\ UNCHANGED <<diffVars, textVars>>

SpecTables == InitTables /\ [][CompareTables]_vars

----------------------------------------------------------------------------
(* compare_text_content on its own *)

Alphabet == {"a", "b", "c"}

Strings == SeqsBetween(Alphabet, 0, MaxLen)

InitText ==
    /\ pc = "text"
    /\ text1 \in Strings
    /\ text2 \in Strings
    /\ result = <<>>
    /\ content1 = <<>>
    /\ content2 = <<>>
    /\ idx = 0
    /\ structured_diffs = <<>>
    /\ emitted_by = <<>>
    /\ compared = {}
    /\ status = 0
    /\ table1 = [tableRows |-> <<>>]
    /\ table2 = [tableRows |-> <<>>]
    /\ diffs = <<>>

\* a call of compare_text_content, lines 42-76
CompareText ==
    /\ pc = "text"
    /\ result' = compare_text_content(text1, text2)
    /\ pc' = "text_done"
    /\ UNCHANGED <<text1, text2>>
    /\ UNCHANGED <<diffVars, tableVars>>

SpecText == InitText /\ [][CompareText]_vars

----------------------------------------------------------------------------
(* Vocabulary of the properties of diff_content *)

\* diff_content has returned and the handler has answered 200
Returned == pc = "responded" /\ status = 200

\* normalized forms of the elements, by 0-based index
Processed1(i) == extract_text_from_item(content1[i + 1])
Processed2(j) == extract_text_from_item(content2[j + 1])

IsParagraph(processed) == processed # None /\ processed.type = "paragraph"
IsTable(processed) == processed # None /\ processed.type = "table"

\* the forward pass has finished the iteration of content1 element i
ForwardFinished(i) ==
    /\ i \in 0..(Len(content1) - 1)
    /\ \/ pc = "forward" /\ i + 1 < idx
       \/ pc = "backward"
       \/ Returned

\* the backward pass has finished the iteration of content2 element j
BackwardFinished(j) ==
    /\ j \in 0..(Len(content2) - 1)
    /\ \/ pc = "backward" /\ j + 1 < idx
       \/ Returned

\* positions of structured_diffs appended by the given iteration
RecordsOf(pass, item) ==
    {k \in 1..Len(structured_diffs) : emitted_by[k] = [pass |-> pass, item |-> item]}

\* the only record of a one-element set of positions
OnlyRecord(positions) == structured_diffs[CHOOSE k \in positions : TRUE]

----------------------------------------------------------------------------
(* C1: for every content sequence X whose items all normalize, with pairwise *)
(* distinct paragraph texts, diff_content(X, X) returns the empty list.      *)
C1_SelfComparisonEmpty ==
    ( /\ Returned
      /\ content1 = content2
      /\ \A i \in 0..(Len(content1) - 1) : Processed1(i) # None
      /\ \A i, k \in 0..(Len(content1) - 1) :
            (i # k /\ IsParagraph(Processed1(i)) /\ IsParagraph(Processed1(k)))
                => Processed1(i).text # Processed1(k).text )
    => structured_diffs = <<>>

(* C2: a single paragraph a against a single paragraph b, a # b, gives       *)
(* exactly the removed record of the content1 paragraph followed by the      *)
(* added record of the content2 paragraph.                                   *)
C2_SingleParagraphsTwoRecords ==
    ( /\ Returned
      /\ Len(content1) = 1 /\ Len(content2) = 1
      /\ IsParagraph(Processed1(0)) /\ IsParagraph(Processed2(0))
      /\ Processed1(0).text # Processed2(0).text )
    => structured_diffs = <<[type |-> "removed", content |-> Processed1(0)],
                            [type |-> "added", content |-> Processed2(0)]>>

(* C3: a single table against a single table with another number of rows    *)
(* gives exactly one record, a structure record with the message            *)
(* "Different number of rows".                                               *)
C3_RowCountMismatchOneRecord ==
    ( /\ Returned
      /\ Len(content1) = 1 /\ Len(content2) = 1
      /\ IsTable(Processed1(0)) /\ IsTable(Processed2(0))
      /\ Len(Processed1(0).data.tableRows) # Len(Processed2(0).data.tableRows) )
    => /\ Len(structured_diffs) = 1
       /\ structured_diffs[1].type = "structure"
       /\ structured_diffs[1].content.data.message = "Different number of rows"

----------------------------------------------------------------------------
\* content1 holds a paragraph with the text of processed2, or a table with as
\* many rows as processed2
HasCounterpartInContent1(processed2) ==
    \E i \in 0..(Len(content1) - 1) :
        \/ /\ IsParagraph(Processed1(i)) /\ IsParagraph(processed2)
           /\ Processed1(i).text = processed2.text
        \/ /\ IsTable(Processed1(i)) /\ IsTable(processed2)
           /\ Len(Processed1(i).data.tableRows) = Len(processed2.data.tableRows)

(* C5: in the backward pass a normalizable content2 element yields an added  *)
(* record if and only if content1 holds no counterpart (a paragraph with the *)
(* same text, a table with the same row count), and [Paragraph(a)] against   *)
(* [Paragraph(a), Paragraph(b)], a # b, gives exactly one added record, for  *)
(* Paragraph(b).                                                             *)
C5_BackwardAddedIffNoCounterpart ==
    /\ \A j \in 0..(Len(content2) - 1) :
          (BackwardFinished(j) /\ Processed2(j) # None) =>
              IF HasCounterpartInContent1(Processed2(j))
              THEN RecordsOf("backward", j) = {}
              ELSE /\ Cardinality(RecordsOf("backward", j)) = 1
                   /\ OnlyRecord(RecordsOf("backward", j)) =
                          [type |-> "added", content |-> Processed2(j)]
    /\ ( /\ Returned
         /\ Len(content1) = 1 /\ Len(content2) = 2
         /\ IsParagraph(Processed1(0)) /\ IsParagraph(Processed2(0)) /\ IsParagraph(Processed2(1))
         /\ Processed1(0).text = Processed2(0).text
         /\ Processed1(0).text # Processed2(1).text )
       => structured_diffs = <<[type |-> "added", content |-> Processed2(1)]>>

\* the backward pass has run over a table whose only counterparts differ from
\* it in their cells, and over a paragraph that has no counterpart
C5_Witness ==
    /\ Returned
    /\ \E j \in 0..(Len(content2) - 1) :
          /\ IsTable(Processed2(j)) /\ HasCounterpartInContent1(Processed2(j))
          /\ \A i \in 0..(Len(content1) - 1) :
                IsTable(Processed1(i)) => Processed1(i).data # Processed2(j).data
          /\ RecordsOf("backward", j) = {}
    /\ \E j \in 0..(Len(content2) - 1) :
          /\ IsParagraph(Processed2(j)) /\ ~HasCounterpartInContent1(Processed2(j))
          /\ RecordsOf("backward", j) # {}

----------------------------------------------------------------------------
\* content2 holds a normalizable element of the type of processed1
HasSameTypeInContent2(processed1) ==
    \E j \in 0..(Len(content2) - 1) :
        \/ IsParagraph(processed1) /\ IsParagraph(Processed2(j))
        \/ IsTable(processed1) /\ IsTable(Processed2(j))

(* C6: the forward pass compares an element only with an element of the same *)
(* normalized type, and a normalizable content1 element for which content2   *)
(* holds no normalizable element of its type yields exactly one removed      *)
(* record, for that element, and no other forward-pass record.               *)
C6_ForwardMatchesSameTypeOnly ==
    /\ \A m \in compared :
          /\ m[1] \in 0..(Len(content1) - 1) /\ m[2] \in 0..(Len(content2) - 1)
          /\ \/ IsParagraph(Processed1(m[1])) /\ IsParagraph(Processed2(m[2]))
             \/ IsTable(Processed1(m[1])) /\ IsTable(Processed2(m[2]))
    /\ \A i \in 0..(Len(content1) - 1) :
          (ForwardFinished(i) /\ Processed1(i) # None /\ ~HasSameTypeInContent2(Processed1(i))) =>
              /\ \A m \in compared : m[1] # i
              /\ Cardinality(RecordsOf("forward", i)) = 1
              /\ OnlyRecord(RecordsOf("forward", i)) =
                     [type |-> "removed", content |-> Processed1(i)]

\* a paragraph of content1 met only tables in content2, while a table of
\* content1 was compared with one
C6_Witness ==
    /\ Returned
    /\ Len(content1) = 2
    /\ IsParagraph(Processed1(0)) /\ ~HasSameTypeInContent2(Processed1(0))
    /\ IsTable(Processed1(1))
    /\ <<1, 1>> \in compared

----------------------------------------------------------------------------
(* C9: every forward-pass record precedes every backward-pass record;        *)
(* forward-pass records are in the order of the content1 elements that       *)
(* produced them and backward-pass records in the order of the content2      *)
(* elements that produced them.                                              *)
C9_EmissionOrder ==
    /\ Len(emitted_by) = Len(structured_diffs)
    /\ \A k, l \in 1..Len(structured_diffs) :
          k < l =>
              /\ emitted_by[k].pass = "backward" => emitted_by[l].pass = "backward"
              /\ emitted_by[k].pass = emitted_by[l].pass => emitted_by[k].item <= emitted_by[l].item
    /\ \A k \in 1..Len(structured_diffs) :
          /\ (emitted_by[k].pass = "forward" /\ structured_diffs[k].type = "removed")
                => structured_diffs[k].content.original = content1[emitted_by[k].item + 1]
          /\ emitted_by[k].pass = "backward"
                => /\ structured_diffs[k].type = "added"
                   /\ structured_diffs[k].content.original = content2[emitted_by[k].item + 1]

\* both iterations of both passes have appended records
C9_Witness ==
    /\ Returned
    /\ RecordsOf("forward", 0) # {} /\ RecordsOf("forward", 1) # {}
    /\ RecordsOf("backward", 0) # {} /\ RecordsOf("backward", 1) # {}

----------------------------------------------------------------------------
\* every character of s is whitespace (s may be empty)
Blank(s) == \A n \in 1..Len(s) : s[n] \in Whitespace

\* an item with neither field, or a paragraph whose textRun contents
\* concatenate to an empty or whitespace-only string
Malformed(item) ==
    \/ ~Has(item, "paragraph") /\ ~Has(item, "table")
    \/ /\ Has(item, "paragraph")
       /\ Has(item.paragraph, "elements") => Blank(RunsText(item.paragraph.elements))

(* C10: items with neither a paragraph nor a table field and paragraphs      *)
(* whose text is empty or whitespace-only are dropped and contribute no      *)
(* record on either side; every paragraph payload of a record has a          *)
(* non-empty text without leading or trailing whitespace.                    *)
C10_MalformedItemsDropped ==
    /\ \A i \in 1..Len(content1) : Malformed(content1[i]) => extract_text_from_item(content1[i]) = None
    /\ \A j \in 1..Len(content2) : Malformed(content2[j]) => extract_text_from_item(content2[j]) = None
    /\ \A k \in 1..Len(structured_diffs) :
          /\ emitted_by[k].pass = "forward" => ~Malformed(content1[emitted_by[k].item + 1])
          /\ emitted_by[k].pass = "backward" => ~Malformed(content2[emitted_by[k].item + 1])
          /\ ~Malformed(structured_diffs[k].content.original)
          /\ structured_diffs[k].content.type = "paragraph" =>
                /\ structured_diffs[k].content.text # <<>>
                /\ Head(structured_diffs[k].content.text) \notin Whitespace
                /\ structured_diffs[k].content.text[Len(structured_diffs[k].content.text)] \notin Whitespace

\* both lists hold a malformed item beside a paragraph that was written with
\* surrounding whitespace and is reported
C10_Witness ==
    /\ Returned
    /\ \E i \in 1..Len(content1) : Malformed(content1[i]) /\ Has(content1[i], "paragraph")
    /\ \E j \in 1..Len(content2) : Malformed(content2[j]) /\ ~Has(content2[j], "paragraph")
    /\ \E k \in 1..Len(structured_diffs) :
          /\ structured_diffs[k].content.type = "paragraph"
          /\ RunsText(structured_diffs[k].content.original.paragraph.elements)
                # structured_diffs[k].content.text

----------------------------------------------------------------------------
(* Vocabulary of the properties of compare_tables *)

RowCount(t) == Len(t.tableRows)
CellCount(t, r) == Len(t.tableRows[r + 1].tableCells)

\* the concatenated text of the cell at row r, cell c (0-based)
TextAt(t, r, c) == CellText(t.tableRows[r + 1].tableCells[c + 1])

SameShape(t1, t2) ==
    /\ RowCount(t1) = RowCount(t2)
    /\ \A r \in 0..(RowCount(t1) - 1) : CellCount(t1, r) = CellCount(t2, r)

CellRecord(kind, text, r, c) ==
    [type |-> kind,
     content |-> [type |-> "table", text |-> text, location |-> [row |-> r, cell |-> c]]]

\* the cell records the claim asks of row r, whose cell counts agree
ExpectedOfRow(r) ==
    {CellRecord("removed", TextAt(table1, r, c), r, c) :
        c \in {c \in 0..(CellCount(table1, r) - 1) :
                  /\ TextAt(table1, r, c) # TextAt(table2, r, c)
                  /\ TextAt(table1, r, c) # <<>>}}
    \cup
    {CellRecord("added", TextAt(table2, r, c), r, c) :
        c \in {c \in 0..(CellCount(table1, r) - 1) :
                  /\ TextAt(table1, r, c) # TextAt(table2, r, c)
                  /\ TextAt(table2, r, c) # <<>>}}

\* cell record x comes before cell record y in row-major order, removed
\* before added at one position
RowMajorBefore(x, y) ==
    \/ x.content.location.row < y.content.location.row
    \/ /\ x.content.location.row = y.content.location.row
       /\ x.content.location.cell < y.content.location.cell
    \/ /\ x.content.location = y.content.location
       /\ x.type = "removed" /\ y.type = "added"

\* positions of diffs that hold a cell record of row r
CellRecordsOfRow(r) ==
    {k \in 1..Len(diffs) : diffs[k].type # "structure" /\ diffs[k].content.location.row = r}

\* positions of diffs that hold the structure record of row r
StructureRecordsOfRow(r) ==
    {k \in 1..Len(diffs) :
        /\ diffs[k].type = "structure"
        /\ diffs[k].message = "Different number of cells in row " \o ToString(r)}

(* C4: for two tables of the same shape compare_tables emits records only    *)
(* where the cell texts differ: there a removed record with the table1 text  *)
(* iff that text is non-empty, then an added record with the table2 text iff *)
(* that text is non-empty, each with the location of the cell; the records   *)
(* are in row-major order.                                                   *)
C4_SameShapeCellRecords ==
    (pc = "tables_done" /\ SameShape(table1, table2)) =>
        /\ {diffs[k] : k \in 1..Len(diffs)} = UNION {ExpectedOfRow(r) : r \in 0..(RowCount(table1) - 1)}
        /\ \A k, l \in 1..Len(diffs) : k < l => RowMajorBefore(diffs[k], diffs[l])

\* two tables of one shape were compared: some cell lost its text, some cell
\* gained a text, some cell changed its text, some cell kept it, over two rows
C4_Witness ==
    /\ pc = "tables_done"
    /\ SameShape(table1, table2)
    /\ RowCount(table1) = 2
    /\ \E r \in 0..1 : \E c \in 0..(CellCount(table1, r) - 1) :
          TextAt(table1, r, c) # <<>> /\ TextAt(table2, r, c) = <<>>
    /\ \E r \in 0..1 : \E c \in 0..(CellCount(table1, r) - 1) :
          TextAt(table1, r, c) = <<>> /\ TextAt(table2, r, c) # <<>>
    /\ \E r \in 0..1 : \E c \in 0..(CellCount(table1, r) - 1) :
          TextAt(table1, r, c) = TextAt(table2, r, c) /\ TextAt(table1, r, c) # <<>>
    /\ \E r \in 0..1 : \E c \in 0..(CellCount(table1, r) - 1) :
          /\ TextAt(table1, r, c) # TextAt(table2, r, c)
          /\ TextAt(table1, r, c) # <<>> /\ TextAt(table2, r, c) # <<>>
    /\ Len(diffs) >= 4

(* C7: for two tables of the same shape compare_tables returns no structure  *)
(* record; with equal row counts, each row whose cell counts differ          *)
(* contributes exactly one structure record naming the row and no cell       *)
(* record, and the other rows are still compared.                            *)
C7_StructureRecords ==
    /\ (pc = "tables_done" /\ SameShape(table1, table2)) =>
          \A k \in 1..Len(diffs) : diffs[k].type # "structure"
    /\ (pc = "tables_done" /\ RowCount(table1) = RowCount(table2)) =>
          /\ Len(diffs) = Cardinality(UNION {CellRecordsOfRow(r) \cup StructureRecordsOfRow(r) :
                                                r \in 0..(RowCount(table1) - 1)})
          /\ \A r \in 0..(RowCount(table1) - 1) :
                IF CellCount(table1, r) # CellCount(table2, r)
                THEN /\ Cardinality(StructureRecordsOfRow(r)) = 1
                     /\ CellRecordsOfRow(r) = {}
                ELSE /\ StructureRecordsOfRow(r) = {}
                     /\ {diffs[k] : k \in CellRecordsOfRow(r)} = ExpectedOfRow(r)

\* the first rows differ in their number of cells, and in the text of their
\* first cells, which is not reported; the second rows were compared and
\* differ in a cell
C7_Witness ==
    /\ pc = "tables_done"
    /\ RowCount(table1) = 2 /\ RowCount(table2) = 2
    /\ CellCount(table1, 0) # CellCount(table2, 0)
    /\ TextAt(table1, 0, 0) # TextAt(table2, 0, 0)
    /\ CellCount(table1, 1) = CellCount(table2, 1)
    /\ CellRecordsOfRow(1) # {}
    /\ StructureRecordsOfRow(0) # {}

----------------------------------------------------------------------------
(* C8: every record of compare_text_content(a, b) has a range [lo, hi] with  *)
(* 0 <= lo <= hi <= len(fullText), where fullText is a for removed records   *)
(* and b for added records; for a = b there is no record at all.             *)
C8_RangesWithinText ==
    pc = "text_done" =>
        /\ \A k \in 1..Len(result) :
              /\ result[k].type \in {"removed", "added"}
              /\ result[k].fullText = IF result[k].type = "removed" THEN text1 ELSE text2
              /\ 0 <= result[k].range[1]
              /\ result[k].range[1] <= result[k].range[2]
              /\ result[k].range[2] <= Len(result[k].fullText)
        /\ text1 = text2 => result = <<>>

\* a replacement in the middle and an insertion at the very end of text2
C8_Witness ==
    /\ pc = "text_done"
    /\ \E k \in 1..Len(result) :
          result[k].type = "added" /\ result[k].range[2] = Len(text2) /\ result[k].range[1] > 0
    /\ \E k \in 1..Len(result) :
          result[k].type = "removed" /\ result[k].range[2] < Len(text1)
    /\ Len(result) >= 3

=============================================================================
